---- MODULE Spec2Model ----
(***************************************************************************)
(* Model of klayout/python/kai.py: the kai_ui dialog.                      *)
(*                                                                         *)
(* Text is a sequence of tokens (words, blanks, punctuation); the token    *)
(* "\n" is the newline character.  The wall clock counts ticks of half a   *)
(* second; strftime truncates an instant to whole seconds.  The Qt event   *)
(* loop runs one handler at a time and the AI call blocks the handler, so  *)
(* each handler is one atomic action.                                      *)
(***************************************************************************)
EXTENDS Integers, Sequences, FiniteSets, TLC

\* ------------------------------------------------------------------ bounds
MaxClock == 3          \* last instant (in ticks) the clock reaches
MaxSubmits == 2        \* on_submit invocations explored per session
MaxDelay == 1          \* ticks that may pass inside a blocking call

TicksPerSecond == 2

\* ------------------------------------------------------------------ inputs
NL == "\n"
Blank == " "

\* what the user can have typed in the QLineEdit (a single line)
Prompts == { <<>>, <<"hi">>, <<"yo">> }

\* raw message.content the completion endpoint can return
RawResponses == { <<"ok">>, <<Blank, "ok", NL>>, <<"one", NL, "two">> }

\* the keys the completion endpoint accepts; with any other key the call
\* is refused and raises
AcceptedKeys == { <<"sk-1">> }

\* contents of config.yml, as lines; NoFile: the file does not exist
NoFile == << <<"<absent>">> >>
ConfigFiles ==
  { NoFile,
    << <<"model_name", ":", Blank, "gpt-x", NL>> >>,
    << <<"api_key", ":", Blank, "Not", Blank, "set", NL>> >>,
    << <<"api_key", ":", Blank, "null", NL>>,
       <<"model_name", ":", Blank, "gpt-x", NL>> >>,
    << <<"api_key", ":", NL>> >>,
    << <<"#", Blank, "kAI", NL>>,
       <<"api_key", Blank, ":", Blank, "sk-1", NL>>,
       <<"model_name", ":", Blank, "gpt-x", NL>> >> }

\* ------------------------------------------------------------- str helpers
IsSpace(tok) == tok = Blank \/ tok = NL

RECURSIVE LStrip(_)
LStrip(s) == IF s # <<>> /\ IsSpace(Head(s)) THEN LStrip(Tail(s)) ELSE s

RECURSIVE RStrip(_)
RStrip(s) ==
  IF s # <<>> /\ IsSpace(s[Len(s)]) THEN RStrip(SubSeq(s, 1, Len(s) - 1)) ELSE s

\* str.strip()
Strip(s) == RStrip(LStrip(s))

\* index of the first occurrence of tok in s, 0 if there is none
RECURSIVE FindFrom(_, _, _)
FindFrom(s, tok, i) ==
  IF i > Len(s) THEN 0
  ELSE IF s[i] = tok THEN i
  ELSE FindFrom(s, tok, i + 1)

Find(s, tok) == FindFrom(s, tok, 1)

\* "\n".join(entries)
RECURSIVE JoinLines(_)
JoinLines(entries) ==
  IF entries = <<>> THEN <<>>
  ELSE IF Len(entries) = 1 THEN entries[1]
  ELSE entries[1] \o <<NL>> \o JoinLines(Tail(entries))

\* str.capitalize() on the role names the program uses
Capitalize(role) ==
  CASE role = "user" -> "User"
    [] role = "assistant" -> "Assistant"

\* ------------------------------------------------------------------- clock
Digit == <<"0", "1", "2", "3", "4", "5", "6", "7", "8", "9">>
TwoDigits(n) == Digit[(n \div 10) + 1] \o Digit[(n % 10) + 1]
SecondOf(t) == t \div TicksPerSecond

\* datetime.now().strftime('%Y-%m-%d %H:%M:%S') at instant t
get_timestamp(t) == "2024-01-01 00:00:" \o TwoDigits(SecondOf(t))

\* datetime.now().strftime('%Y%m%d_%H%M%S') at instant t
FileStamp(t) == "20240101_0000" \o TwoDigits(SecondOf(t))

IncrementalName(t) == "kai_" \o FileStamp(t) \o ".txt"
CompleteName(t) == "kai_complete_" \o FileStamp(t) \o ".txt"

\* ------------------------------------------------------------------ config
EmptyDict == [k \in {} |-> <<>>]

Put(d, k, v) == [x \in DOMAIN d \cup {k} |-> IF x = k THEN v ELSE d[x]]

\* dict.get(key, default)
Get(d, k, default) == IF k \in DOMAIN d THEN d[k] ELSE default

\* the sentinel both settings default to
NotSet == <<"Not", Blank, "set">>
Null == <<"null">>

\* the loop of load_config over the lines of config.yml
RECURSIVE ParseLines(_, _)
ParseLines(lines, config_data) ==
  IF lines = <<>> THEN config_data
  ELSE LET line == Head(lines)
           i == Find(line, ":")
       IN IF i = 0 THEN ParseLines(Tail(lines), config_data)
          ELSE ParseLines(Tail(lines),
                          Put(config_data,
                              Strip(SubSeq(line, 1, i - 1)),
                              Strip(SubSeq(line, i + 1, Len(line)))))

load_config(file) ==
  IF file = NoFile THEN EmptyDict ELSE ParseLines(file, EmptyDict)

NotConfigured == "API Key: Not Configured"
Configured == "API Key: Configured"

\* the first line of the label that update_config_display sets
ApiKeyDisplay(key) ==
  IF key # Null /\ key # NotSet THEN Configured ELSE NotConfigured

update_config_display(key, config) ==
  << ApiKeyDisplay(key), NL, "Model Name: " >> \o Get(config, <<"model_name">>, NotSet)

\* --------------------------------------------------------------- on_submit
SubmitGuardNull(prompt, key) == prompt # <<>> /\ key # Null

\* the condition under which on_submit processes the prompt
SubmitGuard(prompt, key) == prompt # <<>> /\ key # NotSet

Message(role, content) == [role |-> role, content |-> content]

UserEntry(t, prompt) == << "User", " [", get_timestamp(t), "]: " >> \o prompt
AiEntry(t, response) == << "AI", " [", get_timestamp(t), "]: " >> \o response
Separator == << "===" >>

\* cursor.insertText(text + '\n') at the end of the QTextEdit
append_to_output(area, text) == area \o text \o <<NL>>

RequestMessagesLastOnly(history) == << history[Len(history)] >>

\* the messages argument that on_submit hands to generate_ai_response
RequestMessages(history) == history

\* response.choices[0].message.content.strip()
generate_ai_response(raw) == Strip(raw)

\* the three writes of store_chat_history
Block(user_entry, ai_entry) ==
  user_entry \o <<NL>> \o ai_entry \o <<NL>> \o Separator \o <<NL>>

\* open(path, 'a') followed by write(text)
AppendFile(fs, path, text) ==
  [p \in DOMAIN fs \cup {path} |->
     IF p = path THEN (IF path \in DOMAIN fs THEN fs[path] ELSE <<>>) \o text
     ELSE fs[p]]

\* open(path, 'w') followed by write(text)
WriteFile(fs, path, text) ==
  [p \in DOMAIN fs \cup {path} |-> IF p = path THEN text ELSE fs[p]]

\* the file that store_chat_history opens at instant t
StorePath(t) == IncrementalName(t)

\* -------------------------------------------------------------- closeEvent
HasMessagesAlways(history) == TRUE

\* `if self.chat_history:'
HasMessages(history) == history # <<>>

\* one element of formatted_history
FormatMessage(message, t) ==
  << Capitalize(message.role), " [", get_timestamp(t), "]: " >> \o message.content

FormattedHistory(history, stamps) ==
  [i \in 1..Len(history) |-> FormatMessage(history[i], stamps[i])]

EventIgnore == FALSE

\* the handler's last statement, event.accept()
EventAccept == TRUE

\* the instants at which n successive calls of datetime.now() can fall
RECURSIVE Instants(_, _, _)
Instants(n, lo, hi) ==
  IF n = 0 THEN { <<>> }
  ELSE UNION { { <<t>> \o rest : rest \in Instants(n - 1, t, hi) } : t \in lo..hi }

\* the clock after the calls at these instants
LastInstant(stamps, now) == IF stamps = <<>> THEN now ELSE stamps[Len(stamps)]

Min(a, b) == IF a < b THEN a ELSE b

\* ------------------------------------------------------------------- state
VARIABLES
  config_data,         \* self.config_data
  api_key,             \* self.api_key
  model_name,          \* self.model_name
  config_display,      \* text of the self.config_display label
  chat_history,        \* self.chat_history
  user_input,          \* text of the self.user_input line edit
  output_area,         \* text of the self.output_area transcript
  dir_exists,          \* whether self.history_dir exists on disk
  files,               \* the files of history_dir: name -> content
  clock,               \* the wall clock, in ticks
  pc,                  \* "open" while the dialog is shown, then "closed"
  event,               \* the event dispatched last
  fault,               \* the exception the last handler left unhandled
  accepted,            \* whether event.accept() was called on the close event
  submits,             \* number of on_submit invocations so far
  ai_log,              \* the messages arguments of the AI calls made so far
  consolidated_writes  \* number of times a consolidated file was written

vars == << config_data, api_key, model_name, config_display, chat_history,
           user_input, output_area, dir_exists, files, clock, pc, event,
           fault, accepted, submits, ai_log, consolidated_writes >>

\* a consolidated transcript left behind by an earlier session
OldFileName == "kai_complete_20231231_235959.txt"
OldFiles == [p \in {OldFileName} |-> <<"User", " [", "2023-12-31 23:59:00", "]: ", "hi">>]
NoFiles == [p \in {} |-> <<>>]

\* kai_ui.__init__
Init ==
  /\ \E file \in ConfigFiles :
       /\ config_data = load_config(file)
       /\ api_key = Get(load_config(file), <<"api_key">>, NotSet)
       /\ model_name = Get(load_config(file), <<"model_name">>, NotSet)
       /\ config_display =
            update_config_display(Get(load_config(file), <<"api_key">>, NotSet),
                                  load_config(file))
  /\ chat_history = <<>>
  /\ user_input = <<>>
  /\ output_area = <<>>
  /\ \/ dir_exists = FALSE /\ files = NoFiles
     \/ dir_exists = TRUE /\ files = NoFiles
     \/ dir_exists = TRUE /\ files = OldFiles
  /\ clock = 0
  /\ pc = "open"
  /\ event = "none"
  /\ fault = "none"
  /\ accepted = FALSE
  /\ submits = 0
  /\ ai_log = <<>>
  /\ consolidated_writes = 0

\* time passes while the dialog waits for the next event
Tick ==
  /\ clock < MaxClock
  /\ clock' = clock + 1
  /\ event' = "none"
  /\ UNCHANGED << config_data, api_key, model_name, config_display,
                  chat_history, user_input, output_area, dir_exists, files,
                  pc, fault, accepted, submits, ai_log, consolidated_writes >>

\* the user edits the prompt line
EditInput ==
  /\ pc = "open"
  /\ \E text \in Prompts :
       /\ text # user_input
       /\ user_input' = text
  /\ event' = "textEdited"
  /\ UNCHANGED << config_data, api_key, model_name, config_display,
                  chat_history, output_area, dir_exists, files, clock, pc,
                  fault, accepted, submits, ai_log, consolidated_writes >>

\* on_submit when the condition of its `if' is false
OnSubmitSkip ==
  /\ pc = "open"
  /\ submits < MaxSubmits
  /\ ~ SubmitGuard(user_input, api_key)
  /\ submits' = submits + 1
  /\ event' = "clicked"
  /\ fault' = "none"
  /\ UNCHANGED << config_data, api_key, model_name, config_display,
                  chat_history, user_input, output_area, dir_exists, files,
                  clock, pc, accepted, ai_log, consolidated_writes >>

\* on_submit when the AI call returns
OnSubmitReturn ==
  /\ pc = "open"
  /\ submits < MaxSubmits
  /\ SubmitGuard(user_input, api_key)
  /\ api_key \in AcceptedKeys
  /\ \E raw \in RawResponses, d1 \in 0..MaxDelay, d2 \in 0..MaxDelay :
       LET prompt == user_input
           history1 == Append(chat_history, Message("user", prompt))
           user_entry == UserEntry(clock, prompt)
           output1 == append_to_output(output_area, user_entry)
           response == generate_ai_response(raw)
           history2 == Append(history1, Message("assistant", response))
           ai_entry == AiEntry(clock + d1, response)
           output2 == append_to_output(output1, ai_entry)
           output3 == append_to_output(output2, Separator)
           now == clock + d1 + d2
       IN /\ now <= MaxClock
          /\ ai_log' = Append(ai_log, RequestMessages(history1))
          /\ chat_history' = history2
          /\ output_area' = output3
          /\ dir_exists' = TRUE
          /\ files' = AppendFile(files, StorePath(now), Block(user_entry, ai_entry))
          /\ clock' = now
  /\ submits' = submits + 1
  /\ event' = "clicked"
  /\ fault' = "none"
  /\ UNCHANGED << config_data, api_key, model_name, config_display,
                  user_input, pc, accepted, consolidated_writes >>

\* on_submit when the AI call raises: the exception leaves the handler
OnSubmitRaise ==
  /\ pc = "open"
  /\ submits < MaxSubmits
  /\ SubmitGuard(user_input, api_key)
  /\ \E d1 \in 0..MaxDelay :
       LET prompt == user_input
           history1 == Append(chat_history, Message("user", prompt))
           user_entry == UserEntry(clock, prompt)
       IN /\ clock + d1 <= MaxClock
          /\ ai_log' = Append(ai_log, RequestMessages(history1))
          /\ chat_history' = history1
          /\ output_area' = append_to_output(output_area, user_entry)
          /\ clock' = clock + d1
  /\ submits' = submits + 1
  /\ event' = "clicked"
  /\ fault' = "APIError"
  /\ UNCHANGED << config_data, api_key, model_name, config_display,
                  user_input, dir_exists, files, pc, accepted,
                  consolidated_writes >>

\* closeEvent with nothing to save
CloseEmpty ==
  /\ pc = "open"
  /\ ~ HasMessages(chat_history)
  /\ accepted' = EventAccept
  /\ pc' = IF EventAccept THEN "closed" ELSE "open"
  /\ event' = "close"
  /\ fault' = "none"
  /\ UNCHANGED << config_data, api_key, model_name, config_display,
                  chat_history, user_input, output_area, dir_exists, files,
                  clock, submits, ai_log, consolidated_writes >>

\* closeEvent writing the consolidated file
CloseWrite ==
  /\ pc = "open"
  /\ HasMessages(chat_history)
  /\ dir_exists
  /\ \E stamps \in Instants(Len(chat_history), clock, Min(clock + MaxDelay, MaxClock)) :
       /\ files' = WriteFile(files, CompleteName(clock),
                             JoinLines(FormattedHistory(chat_history, stamps)))
       /\ clock' = LastInstant(stamps, clock)
  /\ consolidated_writes' = consolidated_writes + 1
  /\ accepted' = EventAccept
  /\ pc' = IF EventAccept THEN "closed" ELSE "open"
  /\ event' = "close"
  /\ fault' = "none"
  /\ UNCHANGED << config_data, api_key, model_name, config_display,
                  chat_history, user_input, output_area, dir_exists, submits,
                  ai_log >>

\* closeEvent when history_dir is missing: open() raises FileNotFoundError
\* before event.accept() is reached.  Whether the toolkit then still hides
\* the dialog is not decided by this program: both outcomes are possible.
CloseRaise ==
  /\ pc = "open"
  /\ HasMessages(chat_history)
  /\ ~ dir_exists
  /\ \E stamps \in Instants(Len(chat_history), clock, Min(clock + MaxDelay, MaxClock)) :
       clock' = LastInstant(stamps, clock)
  /\ pc' \in {"open", "closed"}
  /\ event' = "close"
  /\ fault' = "FileNotFoundError"
  /\ UNCHANGED << config_data, api_key, model_name, config_display,
                  chat_history, user_input, output_area, dir_exists, files,
                  accepted, submits, ai_log, consolidated_writes >>

Next ==
  \/ Tick
  \/ EditInput
  \/ OnSubmitSkip
  \/ OnSubmitReturn
  \/ OnSubmitRaise
  \/ CloseEmpty
  \/ CloseWrite
  \/ CloseRaise

Spec == Init /\ [][Next]_vars

\* ------------------------------------------------- vocabulary of the claims
AllInstants == 0..MaxClock
IncrementalNames == { IncrementalName(t) : t \in AllInstants }
CompleteNames == { CompleteName(t) : t \in AllInstants }

\* the files of the given names, with their contents
Restrict(fs, names) == [p \in DOMAIN fs \cap names |-> fs[p]]

\* str.split('\n'): the pieces between newline characters
RECURSIVE SplitLines(_)
SplitLines(s) ==
  LET i == Find(s, NL) IN
    IF i = 0 THEN << s >>
    ELSE << SubSeq(s, 1, i - 1) >> \o SplitLines(SubSeq(s, i + 1, Len(s)))

\* str.splitlines(): the lines of a text whose lines are newline-terminated
TextLines(text) ==
  IF text = <<>> THEN <<>>
  ELSE IF text[Len(text)] = NL THEN SplitLines(SubSeq(text, 1, Len(text) - 1))
  ELSE SplitLines(text)

IsEntryLine(line) == line # Separator

\* the (user, assistant) pairs of a history, in order
RECURSIVE CompletedPairs(_)
CompletedPairs(history) ==
  IF Len(history) < 2 THEN <<>>
  ELSE IF history[1].role = "user" /\ history[2].role = "assistant"
       THEN << << history[1].content, history[2].content >> >>
              \o CompletedPairs(SubSeq(history, 3, Len(history)))
       ELSE CompletedPairs(Tail(history))

\* text is one block per pair, in order, whatever the timestamps
RECURSIVE IsBlocksOf(_, _)
IsBlocksOf(text, pairs) ==
  IF pairs = <<>> THEN text = <<>>
  ELSE \E t1 \in AllInstants, t2 \in AllInstants :
         LET block == Block(UserEntry(t1, pairs[1][1]), AiEntry(t2, pairs[1][2]))
         IN /\ Len(text) >= Len(block)
            /\ SubSeq(text, 1, Len(block)) = block
            /\ IsBlocksOf(SubSeq(text, Len(block) + 1, Len(text)), Tail(pairs))

RECURSIVE CountSeparators(_)
CountSeparators(lines) ==
  IF lines = <<>> THEN 0
  ELSE (IF Head(lines) = Separator THEN 1 ELSE 0) + CountSeparators(Tail(lines))

RECURSIVE SumOver(_, _)
SumOver(fs, names) ==
  IF names = {} THEN 0
  ELSE LET p == CHOOSE q \in names : TRUE
       IN CountSeparators(TextLines(fs[p])) + SumOver(fs, names \ {p})

\* number of blocks in the incremental files
StoredBlocks == SumOver(files, DOMAIN files \cap IncrementalNames)

\* ------------------------------------------------------------------ claims

\* C1: after N completed submits the session has a single incremental file,
\* and it holds exactly the N User/AI blocks, in submission order.
C1_SingleIncrementalFile ==
  LET pairs == CompletedPairs(chat_history)
      incremental == DOMAIN files \cap IncrementalNames
  IN pairs # <<>> =>
       \E f \in incremental :
         /\ incremental = {f}
         /\ IsBlocksOf(files[f], pairs)

\* C2: after closeEvent ran on a history of M >= 1 messages there is a
\* consolidated file of exactly M lines, the i-th carrying the role and the
\* content of the i-th message.
C2_ConsolidatedHasOneLinePerMessage ==
  (event = "close" /\ chat_history # <<>>) =>
     \E f \in DOMAIN files \cap CompleteNames :
       LET lines == SplitLines(files[f])
       IN /\ Len(lines) = Len(chat_history)
          /\ \A i \in 1..Len(lines) :
               /\ Len(lines[i]) >= 4
               /\ lines[i][1] = Capitalize(chat_history[i].role)
               /\ SubSeq(lines[i], 5, Len(lines[i])) = chat_history[i].content

\* C3: closeEvent on an empty chat_history leaves the history directory and
\* its files as they were, and accepts the event.
C3_CloseEmptyWritesNothing ==
  [][ (pc = "open" /\ event' = "close" /\ chat_history = <<>>)
        => /\ files' = files
           /\ dir_exists' = dir_exists
           /\ accepted'
           /\ fault' = "none" ]_vars

C3_Witness ==
  /\ pc = "closed"
  /\ event = "close"
  /\ chat_history = <<>>
  /\ accepted
  /\ submits > 0
  /\ files = OldFiles

\* C4: every AI call receives the whole history so far, unchanged and in
\* order, followed by the submitted prompt as a user message, each element
\* having the fields role and content only; the history only grows.
C4_FullHistoryReplay ==
  [][ ai_log' # ai_log
        => /\ Len(ai_log') = Len(ai_log) + 1
           /\ SubSeq(ai_log', 1, Len(ai_log)) = ai_log
           /\ ai_log'[Len(ai_log')] =
                chat_history \o << [role |-> "user", content |-> user_input] >>
           /\ \A i \in 1..Len(ai_log'[Len(ai_log')]) :
                DOMAIN ai_log'[Len(ai_log')][i] = {"role", "content"}
           /\ Len(chat_history') > Len(chat_history)
           /\ SubSeq(chat_history', 1, Len(chat_history)) = chat_history ]_vars

C4_Witness ==
  /\ Len(ai_log) = 2
  /\ Len(ai_log[2]) = 3
  /\ ai_log[2][2].role = "assistant"
  /\ ai_log[2][1].content # ai_log[2][3].content

C6_SameDisplayLineEverywhere ==
  \A f \in DOMAIN files \cap CompleteNames :
    SplitLines(files[f]) = SelectSeq(TextLines(output_area), IsEntryLine)

\* C7: the dialog goes from open to closed and never back; a consolidated
\* file is written at most once, and only by closeEvent; once closed, the
\* history directory and chat_history no longer change.
C7_Lifecycle ==
  [][ /\ pc = "closed" =>
           /\ pc' = "closed"
           /\ files' = files
           /\ dir_exists' = dir_exists
           /\ chat_history' = chat_history
           /\ output_area' = output_area
      /\ Restrict(files', CompleteNames) # Restrict(files, CompleteNames) =>
           /\ pc = "open"
           /\ event' = "close"
           /\ consolidated_writes' = 1
      /\ consolidated_writes' <= 1 ]_vars

C7_Witness ==
  /\ pc = "closed"
  /\ consolidated_writes = 1
  /\ event = "none"
  /\ Len(chat_history) = 4

\* C8: no write to the history directory is attempted while the directory
\* is missing.
C8_DirectoryExistsAtEveryWrite ==
  fault # "FileNotFoundError"

\* C9: between handlers chat_history has even length, alternates user,
\* assistant, ... and holds exactly the pairs stored in incremental files.
C9_TurnIsAllOrNothing ==
  /\ Len(chat_history) % 2 = 0
  /\ \A i \in 1..Len(chat_history) :
       chat_history[i].role = (IF i % 2 = 1 THEN "user" ELSE "assistant")
  /\ Len(chat_history) = 2 * StoredBlocks

\* C10: when the label says the API key is not configured, Submit makes no
\* AI call and leaves chat_history alone.
C10_DisplayAgreesWithGuard ==
  config_display[1] = NotConfigured =>
    /\ ai_log = <<>>
    /\ chat_history = <<>>

====
